---- MODULE Spec2Model ----
(***************************************************************************)
(* Model of the MT5 TCP bridge of src/server.py: the acceptor thread       *)
(* tcp_server (one connection at a time: dequeue a command, write it, read *)
(* the reply until it parses, put it on response_queue) and the callers of *)
(* send_command_to_mt5 (put a command, poll response_queue every 0.1 s     *)
(* until the timeout).                                                     *)
(*                                                                         *)
(* Time is counted in ticks of half a poll interval.  A caller's           *)
(* statements take no time (Tick waits while a caller can run); a sleep    *)
(* takes exactly PollTicks.  The acceptor and the remote client are not    *)
(* timed: their steps interleave freely with the callers'.                 *)
(***************************************************************************)
EXTENDS Integers, Sequences, FiniteSets, TLC

VARIABLES
    command_queue,   \* queue.Queue of commands, head first
    response_queue,  \* queue.Queue of responses, head first
    nCmds,           \* number of commands ever enqueued (their ids are 1..nCmds)
    pc,              \* per caller: "idle" | "loop" | "get" | "sleep"
    mine,            \* per caller: id of the command of its current/last call
    timeout,         \* per caller: the timeout argument of the call
    elapsed,         \* per caller in a call: time.time() - start, in ticks
    sleepLeft,       \* per caller: remaining ticks of time.sleep(0.1)
    result,          \* per caller: outcome of the current/last call (at: when it
                     \* timed out)
    quiet,           \* per caller: response_queue was empty at submission, and no
                     \* connection was in service then or accepted since
    apc,             \* acceptor's position in the while-loop body
    nConn,           \* number of connections accepted
    command,         \* acceptor local `command`
    response,        \* acceptor local `response` (unbound until first parse)
    response_data,   \* acceptor local `response_data`, a sequence of bytes
    sent,            \* what the server wrote on the current connection
    peerClosed,      \* the client has written its reply and closed its end
    inbox,           \* the bytes the client wrote, not yet read
    io,              \* documents written, replies read, items put: this connection
    nPut,            \* response_queue.put() calls so far
    nGot,            \* response_queue.get() calls that returned so far
    sockOpen,        \* the socket of the last accepted connection is not closed
    dispatched,      \* log: <<connection, command id>> of every dequeued command
    lastFailed,      \* the last connection that ended in failure (0: none)
    expired,         \* ids of commands whose caller has timed out
    overlap,         \* some call started while another call was in flight
    concurrent       \* ... and it did before any connection was accepted

vars == <<command_queue, response_queue, nCmds, pc, mine, timeout, elapsed,
          sleepLeft, result, quiet, apc, nConn, command, response,
          response_data, sent, peerClosed, inbox, io, nPut, nGot,
          sockOpen, dispatched, lastFailed, expired, overlap, concurrent>>

connVars == <<apc, nConn, command, response, response_data, sent, peerClosed,
              inbox, io, nPut, sockOpen, dispatched, lastFailed>>

(***************************************************************************)
(* Bounds of the model.                                                    *)
(***************************************************************************)
MaxCmds == 2
MaxConns == 2
MaxTimeout == 3

\* time.sleep(0.1): one poll interval is two ticks
PollTicks == 2

Callers == {"a", "b"}
\* caller "a" runs get_stats(), caller "b" runs get_orders()
ActionOf(c) == IF c = "a" THEN "GET_STATS" ELSE "GET_ORDERS"
Timeouts == {0, MaxTimeout}
\* elapsed saturates here, past every deadline plus one poll interval
ElapsedCap == MaxTimeout + PollTicks + 1

Min(x, y) == IF x < y THEN x ELSE y

(***************************************************************************)
(* JSON on the wire.                                                       *)
(***************************************************************************)
\* json.dumps(command): the tokens of the document written to the socket
JsonDumps(cmd) == <<"{", "\"action\"", ": ", cmd.action, "}">>

\* b'{"status":"waiting"}'
Waiting == <<"{", "\"status\"", ":", "\"waiting\"", "}">>

Digits == {"1", "2"}
DigitVal(d) == IF d = "1" THEN 1 ELSE 2

RECURSIVE DecimalVal(_)
DecimalVal(s) ==
    IF s = <<>> THEN 0
    ELSE 10 * DecimalVal(SubSeq(s, 1, Len(s) - 1)) + DigitVal(s[Len(s)])

NoValue == [t |-> "err", n |-> 0]

\* json.loads(response_data.decode('utf-8')) over the bytes { } 1 2:
\* an empty object, a number, or a ValueError ("err")
JsonLoads(buf) ==
    IF buf = <<"{", "}">> THEN [t |-> "obj", n |-> 0]
    ELSE IF buf # <<>> /\ \A i \in 1..Len(buf) : buf[i] \in Digits
         THEN [t |-> "num", n |-> DecimalVal(buf)]
         ELSE NoValue

\* the byte streams a client may write before it closes
ReplyStreams == {<<>>, <<"{">>, <<"{", "}">>, <<"1", "2">>}

\* every way recv() may cut a stream into non-empty chunks
RECURSIVE Chunkings(_)
Chunkings(s) ==
    IF s = <<>> THEN {<<>>}
    ELSE UNION {{<<SubSeq(s, 1, k)>> \o rest :
                    rest \in Chunkings(SubSeq(s, k + 1, Len(s)))} :
                k \in 1..Len(s)}

Unbound == [bound |-> FALSE, val |-> NoValue, forCmd |-> 0, late |-> FALSE,
            doc |-> <<>>]
NoCommand == [id |-> 0, action |-> ""]
NoIo == [writes |-> 0, reads |-> 0, puts |-> 0]
NoResult == [kind |-> "none", val |-> NoValue, forCmd |-> 0, late |-> FALSE,
             doc |-> <<>>, at |-> 0]

Init ==
    /\ command_queue = <<>>
    /\ response_queue = <<>>
    /\ nCmds = 0
    /\ pc = [c \in Callers |-> "idle"]
    /\ mine = [c \in Callers |-> 0]
    /\ timeout = [c \in Callers |-> 0]
    /\ elapsed = [c \in Callers |-> 0]
    /\ sleepLeft = [c \in Callers |-> 0]
    /\ result = [c \in Callers |-> NoResult]
    /\ quiet = [c \in Callers |-> FALSE]
    /\ apc = "accept"
    /\ nConn = 0
    /\ command = NoCommand
    /\ response = Unbound
    /\ response_data = <<>>
    /\ sent = <<>>
    /\ peerClosed = FALSE
    /\ inbox = <<>>
    /\ io = NoIo
    /\ nPut = 0
    /\ nGot = 0
    /\ sockOpen = FALSE
    /\ dispatched = <<>>
    /\ lastFailed = 0
    /\ expired = {}
    /\ overlap = FALSE
    /\ concurrent = FALSE

(***************************************************************************)
(* queue.Queue                                                             *)
(***************************************************************************)
QueueEmpty(q) == q = <<>>
\* put() that adds at the head
QueuePutFront(q, x) == <<x>> \o q
QueuePut(q, x) == Append(q, x)
\* get() that hands out the item put last
QueueBack(q) == q[Len(q)]
QueueFront(q) == Head(q)
\* get() that leaves the item on the queue
QueueKeep(q) == q
QueueRest(q) == Tail(q)

(***************************************************************************)
(* send_command_to_mt5(command, timeout)                                   *)
(***************************************************************************)
InCall(c) == pc[c] # "idle"

\* a loop that gives up one poll interval before the deadline
EarlyTimeout(e, t) == e + PollTicks < t
\* the while condition: time.time() - start < timeout
WithinTimeout(e, t) == e < t

\* command_queue.put(command); start = time.time()
Submit(c) ==
    /\ pc[c] = "idle"
    /\ nCmds < MaxCmds
    /\ command_queue' =
          QueuePut(command_queue, [id |-> nCmds + 1, action |-> ActionOf(c)])
    /\ \E t \in Timeouts : timeout' = [timeout EXCEPT ![c] = t]
    /\ nCmds' = nCmds + 1
    /\ mine' = [mine EXCEPT ![c] = nCmds + 1]
    /\ elapsed' = [elapsed EXCEPT ![c] = 0]
    /\ sleepLeft' = [sleepLeft EXCEPT ![c] = 0]
    /\ result' = [result EXCEPT ![c] = NoResult]
    /\ quiet' = [quiet EXCEPT ![c] = QueueEmpty(response_queue) /\ apc = "accept"]
    /\ overlap' = (overlap \/ \E d \in Callers \ {c} : InCall(d))
    /\ concurrent' =
          (concurrent \/ (nConn = 0 /\ \E d \in Callers \ {c} : InCall(d)))
    /\ pc' = [pc EXCEPT ![c] = "loop"]
    /\ UNCHANGED <<response_queue, expired, nGot>>
    /\ UNCHANGED connVars

\* a timeout that withdraws the caller's command from command_queue
LoopCheckCancels(c) ==
    /\ pc[c] = "loop"
    /\ IF WithinTimeout(elapsed[c], timeout[c])
       THEN /\ IF ~QueueEmpty(response_queue)
                THEN /\ pc' = [pc EXCEPT ![c] = "get"]
                     /\ UNCHANGED sleepLeft
                ELSE /\ pc' = [pc EXCEPT ![c] = "sleep"]
                     /\ sleepLeft' = [sleepLeft EXCEPT ![c] = PollTicks]
            /\ UNCHANGED <<result, expired, command_queue>>
       ELSE /\ pc' = [pc EXCEPT ![c] = "idle"]
            /\ result' = [result EXCEPT ![c] =
                              [NoResult EXCEPT !.kind = "timeout",
                                               !.at = elapsed[c]]]
            /\ expired' = expired \cup {mine[c]}
            /\ command_queue' =
                  SelectSeq(command_queue, LAMBDA x : x.id # mine[c])
            /\ UNCHANGED sleepLeft
    /\ elapsed' = [elapsed EXCEPT ![c] = IF pc'[c] = "idle" THEN 0 ELSE @]
    /\ UNCHANGED <<response_queue, nCmds, mine, timeout, quiet,
                   overlap, concurrent, nGot>>
    /\ UNCHANGED connVars

\* one evaluation of the while condition and of `not response_queue.empty()`;
\* past the deadline the loop ends and HTTPException(504) is raised
LoopCheck(c) ==
    /\ pc[c] = "loop"
    /\ IF WithinTimeout(elapsed[c], timeout[c])
       THEN /\ IF ~QueueEmpty(response_queue)
                THEN /\ pc' = [pc EXCEPT ![c] = "get"]
                     /\ UNCHANGED sleepLeft
                ELSE /\ pc' = [pc EXCEPT ![c] = "sleep"]
                     /\ sleepLeft' = [sleepLeft EXCEPT ![c] = PollTicks]
            /\ UNCHANGED <<result, expired>>
       ELSE /\ pc' = [pc EXCEPT ![c] = "idle"]
            /\ result' = [result EXCEPT ![c] =
                              [NoResult EXCEPT !.kind = "timeout",
                                               !.at = elapsed[c]]]
            /\ expired' = expired \cup {mine[c]}
            /\ UNCHANGED sleepLeft
    /\ elapsed' = [elapsed EXCEPT ![c] = IF pc'[c] = "idle" THEN 0 ELSE @]
    /\ UNCHANGED <<command_queue, response_queue, nCmds, mine, timeout, quiet,
                   overlap, concurrent, nGot>>
    /\ UNCHANGED connVars

\* response = response_queue.get(); return response
\* (get() blocks while the queue is empty)
Get(c) ==
    /\ pc[c] = "get"
    /\ ~QueueEmpty(response_queue)
    /\ LET r == QueueFront(response_queue)
       IN result' = [result EXCEPT ![c] =
                        [kind |-> "response", val |-> r.val, forCmd |-> r.forCmd,
                         late |-> r.late, doc |-> r.doc, at |-> 0]]
    /\ response_queue' = QueueRest(response_queue)
    /\ nGot' = nGot + 1
    /\ pc' = [pc EXCEPT ![c] = "idle"]
    /\ elapsed' = [elapsed EXCEPT ![c] = 0]
    /\ UNCHANGED <<command_queue, nCmds, mine, timeout, sleepLeft, quiet,
                   expired, overlap, concurrent>>
    /\ UNCHANGED connVars

\* a caller that can take a step now
Runnable(c) ==
    \/ pc[c] = "loop"
    \/ pc[c] = "get" /\ ~QueueEmpty(response_queue)

\* time passes while every caller in a call sleeps or is blocked in get()
Tick ==
    /\ \A c \in Callers : ~Runnable(c)
    /\ \E c \in Callers : InCall(c) /\ elapsed[c] < ElapsedCap
    /\ elapsed' = [c \in Callers |->
                     IF InCall(c) THEN Min(elapsed[c] + 1, ElapsedCap)
                     ELSE elapsed[c]]
    /\ sleepLeft' = [c \in Callers |->
                       IF pc[c] = "sleep" THEN sleepLeft[c] - 1 ELSE sleepLeft[c]]
    /\ pc' = [c \in Callers |->
                IF pc[c] = "sleep" /\ sleepLeft[c] = 1 THEN "loop" ELSE pc[c]]
    /\ UNCHANGED <<command_queue, response_queue, nCmds, mine, timeout, result,
                   quiet, expired, overlap, concurrent, nGot>>
    /\ UNCHANGED connVars

(***************************************************************************)
(* tcp_server(): the body of `while True`                                  *)
(***************************************************************************)
callerState == <<nCmds, pc, mine, timeout, elapsed, sleepLeft, result, expired,
                 overlap, concurrent, nGot>>

\* an exception that leaves the while loop: the thread ends
OnExceptionEscapes ==
    /\ apc' = "stopped"
    /\ lastFailed' = nConn
    /\ sent' = <<>>
    /\ response_data' = <<>>
    /\ peerClosed' = FALSE
    /\ inbox' = <<>>
    /\ io' = NoIo

\* except Exception as e: print(...); the loop goes on with the next accept()
\* (response_data is dead until line 74 assigns it again, and is kept empty
\* between connections; the dropped connection's unread bytes are gone)
OnException ==
    /\ apc' = "accept"
    /\ lastFailed' = nConn
    /\ sent' = <<>>
    /\ response_data' = <<>>
    /\ peerClosed' = FALSE
    /\ inbox' = <<>>
    /\ io' = NoIo

\* json.loads succeeded on the bytes read on this connection
Parsed(buf) == JsonLoads(buf).t # "err"

\* client_socket, address = server_socket.accept()
Accept ==
    /\ apc = "accept"
    /\ nConn < MaxConns
    /\ nConn' = nConn + 1
    /\ sockOpen' = TRUE
    /\ apc' = "check"
    /\ quiet' = [c \in Callers |-> FALSE]
    /\ UNCHANGED <<command_queue, response_queue, nPut, command, response,
                   response_data, sent, peerClosed, inbox, io, dispatched,
                   lastFailed>>
    /\ UNCHANGED callerState

\* if not command_queue.empty(): command = command_queue.get()
Check ==
    /\ apc = "check"
    /\ IF ~QueueEmpty(command_queue)
       THEN /\ command' = QueueFront(command_queue)
            /\ command_queue' = QueueRest(command_queue)
            /\ dispatched' =
                  Append(dispatched, <<nConn, QueueFront(command_queue).id>>)
            /\ apc' = "send"
       ELSE /\ apc' = "idle"
            /\ UNCHANGED <<command, command_queue, dispatched>>
    /\ UNCHANGED <<response_queue, nPut, nConn, response, response_data, sent,
                   peerClosed, inbox, io, sockOpen, lastFailed, quiet>>
    /\ UNCHANGED callerState

\* the loop of lines 75-85 on the chunks recv() returns, b'' after the last:
\* each chunk is appended and json.loads tried on all the bytes so far
RECURSIVE ReadLoop(_, _)
ReadLoop(data, chunks) ==
    IF chunks = <<>> THEN [data |-> data, ok |-> FALSE]
    ELSE LET d == data \o Head(chunks)
         IN IF Parsed(d) THEN [data |-> d, ok |-> TRUE]
            ELSE ReadLoop(d, Tail(chunks))

\* client_socket.sendall(json.dumps(command).encode()); response_data = b''
Send ==
    /\ apc = "send"
    /\ sent' = JsonDumps(command)
    /\ response_data' = <<>>
    /\ io' = [io EXCEPT !.writes = @ + 1]
    /\ apc' = "recv"
    /\ UNCHANGED <<command_queue, response_queue, nPut, nConn, command,
                   response,
                   peerClosed, inbox, sockOpen, dispatched, lastFailed, quiet>>
    /\ UNCHANGED callerState

\* the client, having read the command, writes its reply and closes; until it
\* does, recv() blocks
ClientReply ==
    /\ apc = "recv"
    /\ ~peerClosed
    /\ peerClosed' = TRUE
    /\ inbox' \in ReplyStreams
    /\ UNCHANGED <<command_queue, response_queue, nPut, apc, nConn, command,
                   response,
                   response_data, sent, io, sockOpen, dispatched, lastFailed,
                   quiet>>
    /\ UNCHANGED callerState

\* a read loop without `if not chunk: break`: it ends only on a parse
RecvUntilParsed ==
    /\ apc = "recv"
    /\ peerClosed
    /\ \E chunks \in Chunkings(inbox) :
          LET r == ReadLoop(<<>>, chunks)
          IN /\ r.ok
             /\ response_data' = r.data
             /\ response' =
                   [bound |-> TRUE, val |-> JsonLoads(r.data),
                    forCmd |-> command.id,
                    late |-> command.id \in expired, doc |-> inbox]
    /\ inbox' = <<>>
    /\ io' = [io EXCEPT !.reads = @ + 1]
    /\ apc' = "deliver"
    /\ UNCHANGED <<command_queue, response_queue, nPut, nConn, command, sent,
                   peerClosed, sockOpen, dispatched, lastFailed, quiet>>
    /\ UNCHANGED callerState

\* the read loop on the client's reply, in whatever chunks recv() cuts it:
\* it ends at the first parse or at b'' (the peer closed)
Recv ==
    /\ apc = "recv"
    /\ peerClosed
    /\ \E chunks \in Chunkings(inbox) :
          LET r == ReadLoop(<<>>, chunks)
          IN /\ response_data' = r.data
             /\ response' =
                   IF r.ok
                   THEN [bound |-> TRUE, val |-> JsonLoads(r.data),
                         forCmd |-> command.id,
                         late |-> command.id \in expired, doc |-> inbox]
                   ELSE response
    /\ inbox' = <<>>
    /\ io' = [io EXCEPT !.reads = @ + 1]
    /\ apc' = "deliver"
    /\ UNCHANGED <<command_queue, response_queue, nPut, nConn, command, sent,
                   peerClosed, sockOpen, dispatched, lastFailed, quiet>>
    /\ UNCHANGED callerState

\* sendall raises (the peer is gone)
SendFail ==
    /\ apc = "send"
    /\ OnException
    /\ UNCHANGED <<command_queue, response_queue, nPut, nConn, command,
                   response,
                   sockOpen, dispatched, quiet>>
    /\ UNCHANGED callerState

\* recv raises (the peer reset the connection)
RecvReset ==
    /\ apc = "recv"
    /\ OnException
    /\ UNCHANGED <<command_queue, response_queue, nPut, nConn, command,
                   response,
                   sockOpen, dispatched, quiet>>
    /\ UNCHANGED callerState

\* an acceptor that serves the next command on the connection it has open
DeliverKeepsConnection ==
    /\ apc = "deliver"
    /\ IF response.bound
       THEN /\ response_queue' = QueuePut(response_queue, response)
            /\ apc' = "check"
            /\ lastFailed' = IF Parsed(response_data) THEN lastFailed
                              ELSE nConn
            /\ io' = [io EXCEPT !.puts = @ + 1]
            /\ nPut' = nPut + 1
            /\ response_data' = <<>>
            /\ UNCHANGED <<sent, peerClosed, inbox>>
       ELSE /\ OnException
            /\ UNCHANGED <<response_queue, nPut>>
    /\ UNCHANGED <<command_queue, nConn, command, response, sockOpen,
                   dispatched, quiet>>
    /\ UNCHANGED callerState

\* print(f"... {response}"); response_queue.put(response):
\* reading `response` before its first assignment raises UnboundLocalError
\* (response_data is not read again on this connection)
Deliver ==
    /\ apc = "deliver"
    /\ IF response.bound
       THEN /\ response_queue' = QueuePut(response_queue, response)
            /\ apc' = "close"
            /\ lastFailed' = IF Parsed(response_data) THEN lastFailed
                              ELSE nConn
            /\ io' = [io EXCEPT !.puts = @ + 1]
            /\ nPut' = nPut + 1
            /\ response_data' = <<>>
            /\ UNCHANGED <<sent, peerClosed, inbox>>
       ELSE /\ OnException
            /\ UNCHANGED <<response_queue, nPut>>
    /\ UNCHANGED <<command_queue, nConn, command, response, sockOpen,
                   dispatched, quiet>>
    /\ UNCHANGED callerState

\* an acceptor that reads a reply after the placeholder too
IdleReadsReply ==
    /\ apc = "idle"
    /\ sent' = Waiting
    /\ io' = [io EXCEPT !.writes = @ + 1]
    /\ apc' = "deliver"
    /\ UNCHANGED <<command_queue, response_queue, nPut, nConn, command,
                   response,
                   response_data, peerClosed, inbox, sockOpen, dispatched,
                   lastFailed, quiet>>
    /\ UNCHANGED callerState

\* client_socket.sendall(b'{"status":"waiting"}')
Idle ==
    /\ apc = "idle"
    /\ sent' = Waiting
    /\ io' = [io EXCEPT !.writes = @ + 1]
    /\ apc' = "close"
    /\ UNCHANGED <<command_queue, response_queue, nPut, nConn, command,
                   response,
                   response_data, peerClosed, inbox, sockOpen, dispatched,
                   lastFailed, quiet>>
    /\ UNCHANGED callerState

\* that sendall raises
IdleFail ==
    /\ apc = "idle"
    /\ OnException
    /\ UNCHANGED <<command_queue, response_queue, nPut, nConn, command,
                   response,
                   sockOpen, dispatched, quiet>>
    /\ UNCHANGED callerState

\* a server that returns after the first connection it closes
CloseAndReturn ==
    /\ apc = "close"
    /\ sockOpen' = FALSE
    /\ sent' = <<>>
    /\ response_data' = <<>>
    /\ peerClosed' = FALSE
    /\ inbox' = <<>>
    /\ io' = NoIo
    /\ apc' = "stopped"
    /\ UNCHANGED <<command_queue, response_queue, nPut, nConn, command,
                   response,
                   dispatched, lastFailed, quiet>>
    /\ UNCHANGED callerState

\* client_socket.close()
Close ==
    /\ apc = "close"
    /\ sockOpen' = FALSE
    /\ sent' = <<>>
    /\ response_data' = <<>>
    /\ peerClosed' = FALSE
    /\ inbox' = <<>>
    /\ io' = NoIo
    /\ apc' = "accept"
    /\ UNCHANGED <<command_queue, response_queue, nPut, nConn, command,
                   response,
                   dispatched, lastFailed, quiet>>
    /\ UNCHANGED callerState

Next ==
    \/ \E c \in Callers : Submit(c)
    \/ \E c \in Callers : LoopCheck(c)
    \/ \E c \in Callers : Get(c)
    \/ Tick
    \/ Accept
    \/ Check
    \/ Send
    \/ SendFail
    \/ ClientReply
    \/ Recv
    \/ RecvReset
    \/ Deliver
    \/ Idle
    \/ IdleFail
    \/ Close

Spec == Init /\ [][Next]_vars

\* the threads run whenever they can and time passes; whether a client
\* connects, and what it writes, is up to the client
FairSpec ==
    /\ Spec
    /\ WF_vars(Tick)
    /\ \A c \in Callers : WF_vars(LoopCheck(c)) /\ WF_vars(Get(c))
    /\ WF_vars(Check) /\ WF_vars(Send) /\ WF_vars(Recv) /\ WF_vars(Deliver)
    /\ WF_vars(Idle) /\ WF_vars(Close)

\* ... and clients keep connecting, and each one that is sent a command
\* replies or closes
LiveSpec ==
    /\ FairSpec
    /\ WF_vars(Accept) /\ WF_vars(ClientReply)

(***************************************************************************)
(* The outcome of a call of send_command_to_mt5                            *)
(***************************************************************************)
Returned(c) == result[c].kind = "response"
TimedOut(c) == result[c].kind = "timeout"

(***************************************************************************)
(* The HTTP endpoints: try: return send_command_to_mt5(command)            *)
(*                     except Exception as e: raise HTTPException(500, ..) *)
(***************************************************************************)
HTTPException(status_code, detail) ==
    [status |-> status_code, detail |-> detail]

\* what send_command_to_mt5 raises past the deadline
TimeoutRaised == HTTPException(504, <<"MT5 timeout - EA not connecting">>)

\* str(e) of an HTTPException: empty, or "<status_code>: <detail>", by the
\* version of the framework
StrOf(e) == {<<>>, <<ToString(e.status), ": ">> \o e.detail}

\* the responses the endpoint of caller c can give for the outcome of its
\* call: HTTPException is an Exception, so the handler catches the 504 too
Endpoint(c) ==
    IF TimedOut(c)
    THEN {HTTPException(500, d) : d \in StrOf(TimeoutRaised)}
    ELSE IF Returned(c)
         THEN {[status |-> 200, detail |-> <<>>]}
         ELSE {}

(***************************************************************************)
(* Claims                                                                  *)
(***************************************************************************)
\* C1: while calls never overlap, every response returned to a caller is the
\* reply the client sent for the command this caller enqueued.
C1_OwnReplyWhenSerial ==
    ~overlap => \A c \in Callers : Returned(c) => result[c].forCmd = mine[c]

\* C2: on a connection whose reply never parsed (no bytes, or bytes that are
\* no JSON), the acceptor's deliver step puts nothing on response_queue.
C2_NoDeliveryOnFailedReply ==
    [][(apc = "deliver" /\ ~Parsed(response_data) /\ apc' # apc)
         => response_queue' = response_queue]_vars

\* C3: a reply the client sends for a command whose caller has already
\* timed out is never returned to any caller.
C3_LateReplyDropped ==
    \A c \in Callers : Returned(c) => ~result[c].late

\* C4: commands go out in the order they were enqueued, one per
\* connection: the k-th dequeued command is the k-th enqueued, on a later
\* connection than the one before it, whatever is still queued was enqueued
\* after everything dequeued, and the command being served is the last dequeued.
C4_FifoDispatch ==
    /\ \A i \in 1..Len(dispatched) : dispatched[i][2] = i
    /\ \A i \in 1..Len(dispatched) : \A j \in 1..Len(dispatched) :
          i < j => dispatched[i][1] < dispatched[j][1]
    /\ \A k \in 1..Len(command_queue) :
          command_queue[k].id = Len(dispatched) + k
    /\ apc \in {"send", "recv", "deliver"} =>
          /\ dispatched # <<>>
          /\ dispatched[Len(dispatched)] = <<nConn, command.id>>
    /\ (apc = "deliver" /\ sent # <<>>) =>
          sent = <<"{", "\"action\"", ": ", command.action, "}">>

\* C4 witness: two commands were queued together and went out on two connections
C4_Witness ==
    /\ Len(dispatched) = 2
    /\ concurrent
    /\ apc = "deliver"
    /\ sent # <<>>

\* C5: a connection whose dispatch check finds command_queue empty is written
\* exactly {"status":"waiting"} (nothing when that write fails) and no command,
\* the acceptor goes on to close it without reading a reply, and no step the
\* acceptor takes on that connection changes either queue.
C5_IdleReply ==
    [][/\ (apc = "check" /\ command_queue = <<>> /\ apc' # apc) =>
            /\ apc' = "idle"
            /\ UNCHANGED <<command_queue, response_queue, sent, dispatched>>
       /\ (apc = "idle" /\ apc' # apc) =>
            /\ apc' \in {"close", "accept"}
            /\ apc' = "close" =>
                  sent' = <<"{", "\"status\"", ":", "\"waiting\"", "}">>
            /\ apc' = "accept" => sent' = <<>>
            /\ UNCHANGED <<command_queue, response_queue, dispatched, response,
                           response_data>>
       /\ (apc = "close" /\ apc' # apc
             /\ sent = <<"{", "\"status\"", ":", "\"waiting\"", "}">>) =>
            /\ apc' = "accept"
            /\ UNCHANGED <<command_queue, response_queue, dispatched>>]_vars

\* C5 witness: the placeholder went out on a connection accepted after an
\* earlier connection's reply was parsed
C5_Witness ==
    /\ apc = "close"
    /\ sent = <<"{", "\"status\"", ":", "\"waiting\"", "}">>
    /\ response.bound

\* C6: a call that found response_queue empty and saw no connection fails
\* with the timeout error, no earlier than its timeout after the call
\* started and no later than one poll interval after that.
C6_TimeoutWindow ==
    \A c \in Callers :
        quiet[c] =>
            /\ ~Returned(c)
            /\ TimedOut(c) =>
                  /\ timeout[c] <= result[c].at
                  /\ result[c].at <= timeout[c] + PollTicks
            /\ InCall(c) => elapsed[c] <= timeout[c] + PollTicks

\* C6 witness: such a call timed out after its deadline, at the next poll
C6_Witness ==
    \E c \in Callers :
        /\ quiet[c]
        /\ TimedOut(c)
        /\ timeout[c] > 0
        /\ result[c].at > timeout[c]

\* C7: when one command is submitted from the initial state and the client
\* replies with a well-formed JSON document, the caller is returned that
\* document and the client was written the submitted command.
C7_RoundTrip ==
    nCmds = 1 =>
        \A c \in Callers :
            /\ (Returned(c) /\ JsonLoads(result[c].doc).t # "err") =>
                  /\ result[c].val = JsonLoads(result[c].doc)
                  /\ result[c].forCmd = mine[c]
            /\ (mine[c] = 1 /\ apc = "deliver") =>
                  sent = <<"{", "\"action\"", ": ", ActionOf(c), "}">>

\* C8: when two callers submitted before any client connected, a response
\* the caller of the second command is returned while only one connection
\* has been served is the reply to the first caller's command, not its own.
C8_CrosstalkOnFirstConnection ==
    \A c \in Callers :
        (concurrent /\ mine[c] = 2 /\ Returned(c) /\ nConn = 1) =>
            result[c].forCmd = 1

\* C8 witness: the caller of the second command holds the reply to the
\* first command, whose caller is still waiting for it
C8_Witness ==
    \E c \in Callers : \E d \in Callers \ {c} :
        /\ concurrent
        /\ mine[d] = 1
        /\ mine[c] = 2
        /\ Returned(c)
        /\ result[c].forCmd = 1
        /\ ~result[c].late
        /\ InCall(d)

\* C9: every call of send_command_to_mt5 returns.
C9_EveryCallReturns ==
    \A c \in Callers : (pc[c] # "idle") ~> (pc[c] = "idle")

\* C10: the acceptor is always inside its loop; after a connection failed
\* (send error, reset, empty or unparseable reply) it is back at accept(), or
\* at close() on its way there, and accept() can take the next connection.
C10_AcceptorSurvivesFailures ==
    /\ apc \in {"accept", "check", "send", "recv", "deliver", "idle", "close"}
    /\ (lastFailed # 0 /\ lastFailed = nConn) => apc \in {"accept", "close"}
    /\ (apc = "accept" /\ nConn < MaxConns) => ENABLED Accept
    /\ apc = "close" => ENABLED Close

\* C10 witness: after a failed connection, a later connection was sent a
\* later command
C10_Witness ==
    /\ 0 < lastFailed
    /\ lastFailed < nConn
    /\ apc = "deliver"
    /\ Len(dispatched) = 2
    /\ dispatched[2][1] = nConn
    /\ dispatched[1][1] = lastFailed

\* C11: an accepted connection carries at most one exchange: the acceptor
\* writes one document on it, the dequeued command or the placeholder and
\* never both nor a second command, reads at most one reply on it and puts at
\* most one item on response_queue for it.
C11_OneExchangePerConnection ==
    /\ io.writes <= 1
    /\ io.reads <= io.writes
    /\ io.puts <= io.reads
    /\ apc \in {"recv", "deliver", "close"} => io.writes = 1
    /\ (sent = <<>>) = (io.writes = 0)
    /\ sent # <<>> =>
          \/ /\ sent = <<"{", "\"status\"", ":", "\"waiting\"", "}">>
             /\ io.reads = 0
             /\ io.puts = 0
             /\ \A i \in 1..Len(dispatched) : dispatched[i][1] # nConn
          \/ /\ sent = <<"{", "\"action\"", ": ", command.action, "}">>
             /\ Cardinality({i \in 1..Len(dispatched) :
                                dispatched[i][1] = nConn}) = 1
\* C11 witness: a connection about to be closed after one command written,
\* one reply read and one item put, while another command is still queued
C11_Witness ==
    /\ apc = "close"
    /\ io = [writes |-> 1, reads |-> 1, puts |-> 1]
    /\ command_queue # <<>>

\* C12: connections are served one at a time, and while a client that was
\* sent a command neither replies nor closes (the acceptor is blocked in
\* recv, nothing is on response_queue) every caller in a call is on its way
\* to the timeout: none is past its deadline by more than one poll interval.
C12_StalledClientTimesOutCallers ==
    /\ apc # "accept" => sockOpen /\ nConn >= 1
    /\ (apc = "recv" /\ ~peerClosed /\ response_queue = <<>>) =>
          \A c \in Callers :
             InCall(c) => elapsed[c] <= timeout[c] + PollTicks

\* C13: the acceptor closes every accepted connection before it accepts the
\* next one, on each of the paths idle reply, successful delivery and failed
\* (empty or unparseable) reply: when it goes back to accept() after the
\* placeholder was written or after the read loop ended, the socket is closed.
C13_ClosedBeforeNextAccept ==
    [][(apc \in {"deliver", "close"} /\ apc' = "accept") => ~sockOpen']_vars

\* C14: once the peer has closed its end, having written nothing or bytes
\* that are not a JSON document, the read loop ends and the acceptor gets
\* back to accept().
C14_ReaderEndsOnPeerClose ==
    (apc = "recv" /\ peerClosed /\ JsonLoads(inbox).t = "err")
        ~> (apc = "accept")
\* C14 witness: the read loop has ended on a closed stream of incomplete bytes
C14_Witness ==
    /\ apc = "deliver"
    /\ io.reads = 1
    /\ response_data = <<"{">>

\* C15: when clients keep connecting and every exchange completes, every
\* queued command is eventually dequeued and handed to sendall on some
\* connection, whether or not its caller still waits. (A command at position
\* p of command_queue needs p more connections; the model has MaxConns.)
C15_QueuedIsDispatched ==
    \A k \in 1..MaxCmds :
       (\E p \in 1..Len(command_queue) :
           command_queue[p].id = k /\ p <= MaxConns - nConn)
         ~> (\E i \in 1..Len(dispatched) : dispatched[i][2] = k)
\* C15 witness: a command whose caller had timed out has been written to a
\* client
C15_Witness ==
    /\ apc = "recv"
    /\ command.id \in expired
    /\ sent = <<"{", "\"action\"", ": ", command.action, "}">>
    /\ \A c \in Callers : ~InCall(c)

\* C16: the reply reader tolerates any chunk boundaries: for the bytes a
\* client wrote before closing, every way recv() may cut them into chunks
\* ends the read loop with the same outcome and the same document.
C16_ChunkingIndependent ==
    (apc = "recv" /\ peerClosed) =>
       \A chunks, other \in Chunkings(inbox) :
          LET r == ReadLoop(<<>>, chunks)
              o == ReadLoop(<<>>, other)
          IN /\ o.ok = r.ok
             /\ r.ok => JsonLoads(o.data) = JsonLoads(r.data)

\* C17: a command is dequeued for, and written to, at most one connection:
\* no command id is dispatched twice, a dispatched command is no longer on
\* command_queue, also after the connection it was dequeued for failed, and
\* the acceptor never adds to command_queue.
C17_NoRedispatch ==
    /\ \A i, j \in 1..Len(dispatched) :
          i # j => dispatched[i][2] # dispatched[j][2]
    /\ \A k \in 1..Len(command_queue) :
          \A i \in 1..Len(dispatched) : dispatched[i][2] # command_queue[k].id
    /\ Len(command_queue) + Len(dispatched) = nCmds
\* C17 witness: the connection after a failed one finds command_queue empty
\* and is written the placeholder, not the failed connection's command
C17_Witness ==
    /\ lastFailed = 1
    /\ dispatched = <<<<1, 1>>>>
    /\ nConn = 2
    /\ apc = "close"
    /\ sent = <<"{", "\"status\"", ":", "\"waiting\"", "}">>

\* C18: a timeout leaves both queues as they are, so the command of a caller
\* that timed out is never dropped: it is still queued, ahead of every
\* command submitted later, or it has been dispatched.
C18_TimeoutKeepsQueues ==
    [][/\ (\E c \in Callers : ~TimedOut(c) /\ TimedOut(c)') =>
             UNCHANGED <<command_queue, response_queue>>
       /\ \A k \in expired' :
             \/ \E i \in 1..Len(dispatched') : dispatched'[i][2] = k
             \/ \E p \in 1..Len(command_queue') :
                   /\ command_queue'[p].id = k
                   /\ \A q \in 1..Len(command_queue') :
                         command_queue'[q].id > k => q > p]_vars
\* C18 witness: the caller of the first command has timed out, its command
\* heads command_queue with a later command behind it, and a client has
\* just connected
C18_Witness ==
    /\ \E c \in Callers : TimedOut(c) /\ mine[c] = 1
    /\ Len(command_queue) = 2
    /\ command_queue[1].id = 1
    /\ apc = "check"

\* C19: responses are conserved: no more items are ever put on
\* response_queue than commands were dequeued by the acceptor, every item put
\* is still queued or was returned by exactly one get(), and no response is
\* held by two callers.
C19_ResponsesConserved ==
    /\ nPut <= Len(dispatched)
    /\ nGot + Len(response_queue) = nPut
    /\ \A c, d \in Callers :
          (c # d /\ Returned(c) /\ Returned(d)) =>
             result[c].forCmd # result[d].forCmd

\* C20: when send_command_to_mt5 times out inside an endpoint, the HTTP
\* client gets the timeout error itself: status 504 with the detail
\* 'MT5 timeout - EA not connecting'.
C20_TimeoutSurfacesAs504 ==
    \A c \in Callers :
       TimedOut(c) =>
          \A r \in Endpoint(c) :
             /\ r.status = 504
             /\ r.detail = <<"MT5 timeout - EA not connecting">>

====
